---- MODULE Spec2Model ----
(***************************************************************************)
(* nodehost-pro: the HTTP handlers of routes.ts (server records, process   *)
(* start/stop/restart), the in-memory process registry of                  *)
(* process-service.ts and the WebSocket log fan-out.                       *)
(*                                                                         *)
(* Node runs one handler continuation at a time; a handler is suspended at *)
(* every await that waits for I/O.  Each action below is one continuation: *)
(* the code between two such awaits.                                      *)
(***************************************************************************)
EXTENDS Integers, Sequences, FiniteSets, TLC

(* ------------------------------ bounds -------------------------------- *)
MaxServers == 1        \* server records ever inserted under Spec
MaxInFlight == 2       \* concurrent HTTP requests under Spec
MaxProcs == 2          \* child processes alive at once
MaxClock == 1          \* Date.now() ranges over 0..MaxClock
MaxCreates == 4        \* POST /api/servers requests under SpecCreate
MaxConns == 2          \* WebSocket connections ever accepted under SpecLog
MaxBroadcasts == 2     \* broadcastLog calls that find a connection set

(* --------------------------- program constants ------------------------ *)
ServerLimit == 3       \* routes.ts: existingServers.length >= 3

Users == {1, 2}
Owners == {1}          \* the session users of Spec
Ids == 1..MaxServers   \* the server ids of Spec
Topics == {1, 2}
Messages == {"a", "b"}

NULL == <<>>           \* processId: null
NoTopic == 0           \* a connection URL without serverId

VARIABLES
  servers,        \* storage: server id -> record (the servers table)
  nextId,         \* next gen_random_uuid() server id
  fs,             \* filesystem: directory id -> layout of the server directory
  nextDir,        \* next createServerDirectory() name
  requests,       \* HTTP handlers suspended at an await: a bag of continuations
  lastResponse,   \* the HTTP response the last step sent, NoResponse if none
  processes,      \* ProcessService.processes: handle id -> child process
  procs,          \* the living child processes, numbered by age: pid -> state
  now,            \* Date.now()
  serverConnections, \* topic id -> set of WebSocket connections
  sockets,        \* WebSocket connections: id -> [topic, readyState, since]
  inbox,          \* connection id -> envelopes sent on it, in order
  calls,          \* broadcastLog calls that found a connection set, in order
  hook            \* the browser's useWebSocket hook: props, socketRef, timers

vars == <<servers, nextId, fs, nextDir, requests, lastResponse, processes,
          procs, now, serverConnections, sockets, inbox, calls, hook>>

storageVars == <<servers, nextId>>
fsVars == <<fs, nextDir>>
procVars == <<processes, procs>>
wsVars == <<serverConnections, sockets, hook>>
logVars == <<inbox, calls>>

(* ------------------------------ helpers ------------------------------- *)
\* no process.nextTick callback is pending: a failed spawn emits 'error' on
\* the next tick, before any I/O callback and any suspended handler runs
Quiet == \A pid \in DOMAIN procs : procs[pid].state # "failed"

Remove(f, k) == [x \in DOMAIN f \ {k} |-> f[x]]

Put(f, k, v) == [x \in DOMAIN f \cup {k} |-> IF x = k THEN v ELSE f[x]]

\* bags: element -> number of copies
Count(bag, e) == IF e \in DOMAIN bag THEN bag[e] ELSE 0

BagAdd(bag, e) ==
  [x \in DOMAIN bag \cup {e} |-> Count(bag, x) + (IF x = e THEN 1 ELSE 0)]

BagDel(bag, e) ==
  [x \in {y \in DOMAIN bag : y # e \/ bag[y] > 1} |->
     bag[x] - (IF x = e THEN 1 ELSE 0)]

Become(bag, old, new) == BagAdd(BagDel(bag, old), new)

RECURSIVE BagSize(_)
BagSize(bag) ==
  IF DOMAIN bag = {} THEN 0
  ELSE LET e == CHOOSE x \in DOMAIN bag : TRUE
       IN  bag[e] + BagSize([x \in DOMAIN bag \ {e} |-> bag[x]])

(* ----------------------------- responses ----------------------------- *)
\* res.status(status).json({..., processId})
Response(kind, status, processId) ==
  [kind |-> kind, status |-> status, processId |-> processId]

NoResponse == [kind |-> "", status |-> 0, processId |-> NULL]

Answer(kind, status, processId) ==
  lastResponse' = Response(kind, status, processId)

\* the step sends no HTTP response
Silent == lastResponse' = NoResponse

(* ---------------------------- log fan-out ----------------------------- *)
\* JSON.stringify({type, timestamp, message})
Envelope(message) == [type |-> "log", timestamp |-> now, message |-> message]

\* mutant of Receivers: the envelope goes to the open connections of every topic
ReceiversOfAnyTopic(conns, socks, serverId) ==
  {ws \in DOMAIN socks : socks[ws].readyState = "OPEN" /\ socks[ws].topic # NoTopic}

\* connections.forEach(ws => { if (ws.readyState === OPEN) ws.send(...) })
Receivers(conns, socks, serverId) ==
  IF serverId \in DOMAIN conns
    THEN {ws \in conns[serverId] : socks[ws].readyState = "OPEN"}
    ELSE {}

\* broadcastLog(serverId, message) applied to the pair <<inbox, calls>>
broadcastLog(log, serverId, message) ==
  IF serverId \in DOMAIN serverConnections
    THEN <<[ws \in DOMAIN log[1] |->
              IF ws \in Receivers(serverConnections, sockets, serverId)
                THEN Append(log[1][ws], Envelope(message))
                ELSE log[1][ws]],
           Append(log[2], [serverId |-> serverId, message |-> message,
                           timestamp |-> now])>>
    ELSE log

RECURSIVE broadcastAll(_, _, _)
\* the broadcastLog calls one continuation makes, in order
broadcastAll(log, serverId, msgs) ==
  IF msgs = <<>> THEN log
  ELSE broadcastAll(broadcastLog(log, serverId, Head(msgs)), serverId, Tail(msgs))

Log(serverId, msgs) ==
  LET out == broadcastAll(<<inbox, calls>>, serverId, msgs)
  IN  /\ inbox' = out[1]
      /\ calls' = out[2]

\* the envelope a recorded call sent
EnvelopeOf(call) ==
  [type |-> "log", timestamp |-> call.timestamp, message |-> call.message]

RECURSIVE History(_, _)
\* the envelopes of the recorded calls for one topic
History(log, topic) ==
  IF log = <<>> THEN <<>>
  ELSE (IF Head(log).serverId = topic THEN <<EnvelopeOf(Head(log))>> ELSE <<>>)
       \o History(Tail(log), topic)

\* mutant of Connection: a new connection is sent the topic's earlier envelopes
ConnectionWithReplay(topic) ==
  /\ Quiet
  /\ Cardinality(DOMAIN sockets) < MaxConns
  /\ LET ws == Cardinality(DOMAIN sockets) + 1
     IN  /\ sockets' = Put(sockets, ws, [topic |-> topic, readyState |-> "OPEN",
                                          since |-> Len(calls)])
         /\ inbox' = Put(inbox, ws, History(calls, topic))
         /\ serverConnections' =
              IF topic # NoTopic
                THEN Put(serverConnections, topic,
                         (IF topic \in DOMAIN serverConnections
                            THEN serverConnections[topic] ELSE {}) \cup {ws})
                ELSE serverConnections
  /\ Silent
  /\ UNCHANGED <<storageVars, fsVars, requests, procVars, now, calls, hook>>

\* wss.on('connection'): a connection whose URL carries serverId joins the set
Connection(topic) ==
  /\ Quiet
  /\ Cardinality(DOMAIN sockets) < MaxConns
  /\ LET ws == Cardinality(DOMAIN sockets) + 1
     IN  /\ sockets' = Put(sockets, ws, [topic |-> topic, readyState |-> "OPEN",
                                          since |-> Len(calls)])
         /\ inbox' = Put(inbox, ws, <<>>)
         /\ serverConnections' =
              IF topic # NoTopic
                THEN Put(serverConnections, topic,
                         (IF topic \in DOMAIN serverConnections
                            THEN serverConnections[topic] ELSE {}) \cup {ws})
                ELSE serverConnections
  /\ Silent
  /\ UNCHANGED <<storageVars, fsVars, requests, procVars, now, calls, hook>>

\* the closing handshake starts: readyState leaves OPEN before 'close' fires
Closing(ws) ==
  /\ Quiet
  /\ ws \in DOMAIN sockets
  /\ sockets[ws].readyState = "OPEN"
  /\ sockets' = [sockets EXCEPT ![ws].readyState = "CLOSING"]
  /\ Silent
  /\ UNCHANGED <<storageVars, fsVars, requests, procVars, now, serverConnections, logVars, hook>>

\* ws.on('close'): serverConnections.get(serverId)?.delete(ws)
SocketClose(ws) ==
  /\ Quiet
  /\ ws \in DOMAIN sockets
  /\ sockets[ws].readyState \in {"OPEN", "CLOSING"}
  /\ sockets' = [sockets EXCEPT ![ws].readyState = "CLOSED"]
  /\ serverConnections' =
       IF sockets[ws].topic # NoTopic /\ sockets[ws].topic \in DOMAIN serverConnections
         THEN [serverConnections EXCEPT ![sockets[ws].topic] = @ \ {ws}]
         ELSE serverConnections
  /\ Silent
  /\ UNCHANGED <<storageVars, fsVars, requests, procVars, now, logVars, hook>>

\* mutant of Broadcast: connections that are not open are dropped from the set
BroadcastPruning(serverId, message) ==
  /\ Quiet
  /\ Len(calls) < MaxBroadcasts
  /\ Log(serverId, <<message>>)
  /\ serverConnections' =
       [t \in DOMAIN serverConnections |->
          IF t = serverId
            THEN {ws \in serverConnections[t] : sockets[ws].readyState = "OPEN"}
            ELSE serverConnections[t]]
  /\ sockets' = sockets
  /\ Silent
  /\ UNCHANGED <<storageVars, fsVars, requests, procVars, now, hook>>

\* a caller of broadcastLog
Broadcast(serverId, message) ==
  /\ Quiet
  /\ Len(calls) < MaxBroadcasts
  /\ Log(serverId, <<message>>)
  /\ Silent
  /\ UNCHANGED <<storageVars, fsVars, requests, procVars, now, wsVars>>

Tick ==
  /\ Quiet
  /\ now < MaxClock
  /\ now' = now + 1
  /\ Silent
  /\ UNCHANGED <<storageVars, fsVars, requests, procVars, wsVars, logVars>>

(* ------------------------------ storage ------------------------------- *)
\* storage.getServersByUserId(userId)
getServersByUserId(userId) == {id \in DOMAIN servers : servers[id].userId = userId}

\* mutant of updateServer: the processId column is left out of the update
updateServerStatusOnly(table, id, processId, status) ==
  IF id \in DOMAIN table THEN [table EXCEPT ![id].status = status] ELSE table

\* storage.updateServer(id, updates): UPDATE ... WHERE id = id
updateServer(table, id, processId, status) ==
  IF id \in DOMAIN table
    THEN [table EXCEPT ![id].processId = processId, ![id].status = status]
    ELSE table

\* db.update(servers).set(updates): the columns updates names are overwritten
set(row, updates) ==
  [f \in DOMAIN row |-> IF f \in DOMAIN updates THEN updates[f] ELSE row[f]]

\* storage.updateServer(id, updates) with the updates of a request body
updateServerWith(table, id, updates) ==
  IF id \in DOMAIN table
    THEN [table EXCEPT ![id] = set(table[id], updates)]
    ELSE table

\* mutant of Found: the record's owner is not compared with the session user
FoundAnyOwner(id, userId) == id \in DOMAIN servers

\* the ownership test every /api/servers/:id handler makes after getServer
Found(id, userId) == id \in DOMAIN servers /\ servers[id].userId = userId

(* ----------------------------- filesystem ----------------------------- *)
EmptyDir == [files |-> {}, start |-> FALSE, main |-> ""]

ZipPlain == [files |-> {"index.js"}, start |-> FALSE, main |-> ""]
ZipStart == [files |-> {"package.json", "bot.js"}, start |-> TRUE, main |-> ""]
Zips == {ZipPlain, ZipStart}

\* zip.extractAllTo(targetPath, true): entries are written over the directory
Extract(dir, zip) ==
  [files |-> dir.files \cup zip.files,
   start |-> IF "package.json" \in zip.files THEN zip.start ELSE dir.start,
   main |-> IF "package.json" \in zip.files THEN zip.main ELSE dir.main]

(* ------------------------------ requests ------------------------------ *)
Request(kind, user, sid, pc) ==
  [kind |-> kind, user |-> user, sid |-> sid, pc |-> pc, body |-> "",
   zip |-> EmptyDir, dir |-> 0, status |-> "", h |-> NULL, script |-> <<>>,
   error |-> "", filePaths |-> <<>>]

\* res.status(status).json(...) by a handler that was suspended
Respond(r, status, processId) ==
  /\ requests' = BagDel(requests, r)
  /\ Answer(r.kind, status, processId)

Goto(r, pc) ==
  /\ requests' = Become(requests, r, [r EXCEPT !.pc = pc])
  /\ Silent

At(r, kind, pc) ==
  /\ Quiet
  /\ r \in DOMAIN requests
  /\ r.kind = kind
  /\ r.pc = pc

\* the handler of a request that has just arrived suspends at an await
Suspend(cap, req) ==
  /\ BagSize(requests) < cap
  /\ requests' = BagAdd(requests, req)
  /\ Silent

\* directories made so far plus those the requests in flight can still make
DirsClaimed ==
  (nextDir - 1) + BagSize([r \in {q \in DOMAIN requests : q.kind = "create" /\ q.pc = "mkdir"}
                              |-> requests[r]])

(* --------------------------- POST /api/servers ------------------------ *)
\* mutant of limitReached: an off-by-one comparison
limitReachedOffByOne(existingServers) == Cardinality(existingServers) > ServerLimit

\* existingServers.length >= 3
limitReached(existingServers) == Cardinality(existingServers) >= ServerLimit

\* a request arrives: getServersByUserId and the count check
CreateCount(user, body, cap, dirs) ==
  /\ Quiet
  /\ DirsClaimed < dirs
  /\ IF limitReached(getServersByUserId(user))
       THEN /\ Answer("create", 400, NULL)
            /\ UNCHANGED requests
       ELSE Suspend(cap, [Request("create", user, 0, "mkdir") EXCEPT !.body = body])
  /\ UNCHANGED <<storageVars, fsVars, procVars, now, wsVars, logVars>>

\* fileService.createServerDirectory(), then insertServerSchema.parse
CreateDir(r) ==
  /\ At(r, "create", "mkdir")
  /\ fs' = Put(fs, nextDir, EmptyDir)
  /\ nextDir' = nextDir + 1
  /\ IF r.body = "invalid"
       THEN Respond(r, 500, NULL)
       ELSE /\ requests' = Become(requests, r, [r EXCEPT !.pc = "insert", !.dir = nextDir])
            /\ Silent
  /\ UNCHANGED <<storageVars, procVars, now, wsVars, logVars>>

\* the status field of a creation body: "valid" is a body without one, any
\* other body that parses carries its own name as status
StatusOf(body) == IF body = "valid" THEN "" ELSE body

\* createServer: status: insertServer.status || "stopped"
createServerStatus(body) ==
  IF StatusOf(body) # "" THEN StatusOf(body) ELSE "stopped"

\* storage.createServer(serverData), broadcastLog, res.json(server)
CreateInsert(r) ==
  /\ At(r, "create", "insert")
  /\ servers' = Put(servers, nextId,
                    [userId |-> r.user, status |-> createServerStatus(r.body),
                     processId |-> NULL, rootPath |-> r.dir])
  /\ nextId' = nextId + 1
  /\ Log(nextId, <<"created">>)
  /\ requests' = BagDel(requests, r)
  /\ Answer("create", 200, NULL)
  /\ UNCHANGED <<fsVars, procVars, now, wsVars>>

(* --------------------------- ProcessService --------------------------- *)
\* mutant of commonEntries: the fallback list in the opposite order
commonEntriesReversed == <<"bot.js", "server.js", "app.js", "main.js", "index.js">>

commonEntries == <<"index.js", "main.js", "app.js", "server.js", "bot.js">>

RECURSIVE find(_, _)
\* commonEntries.find(file => files.includes(file)); "" when there is none
find(entries, files) ==
  IF entries = <<>> THEN ""
  ELSE IF Head(entries) \in files THEN Head(entries)
  ELSE find(Tail(entries), files)

\* mutant of startScript: the main file is preferred to the start script
startScriptMainFirst(dir) ==
  IF "package.json" \in dir.files /\ dir.main # "" /\ dir.main \in dir.files
    THEN <<"node", dir.main>>
  ELSE IF "package.json" \in dir.files /\ dir.start
    THEN <<"npm", "start">>
  ELSE IF find(commonEntries, dir.files) # ""
    THEN <<"node", find(commonEntries, dir.files)>>
  ELSE <<>>

\* mutant of startScript: the fallback list is scanned before the main file
startScriptFallbackFirst(dir) ==
  IF "package.json" \in dir.files /\ dir.start
    THEN <<"npm", "start">>
  ELSE IF find(commonEntries, dir.files) # ""
    THEN <<"node", find(commonEntries, dir.files)>>
  ELSE IF "package.json" \in dir.files /\ dir.main # "" /\ dir.main \in dir.files
    THEN <<"node", dir.main>>
  ELSE <<>>

\* mutant of startScript: the initial value "node index.js" is kept when
\* nothing is found
startScriptDefault(dir) ==
  IF "package.json" \in dir.files /\ dir.start
    THEN <<"npm", "start">>
  ELSE IF "package.json" \in dir.files /\ dir.main # "" /\ dir.main \in dir.files
    THEN <<"node", dir.main>>
  ELSE IF find(commonEntries, dir.files) # ""
    THEN <<"node", find(commonEntries, dir.files)>>
  ELSE <<"node", "index.js">>

\* the resolver of startProcess: startScript.split(" "), <<>> when it throws
startScript(dir) ==
  IF "package.json" \in dir.files /\ dir.start
    THEN <<"npm", "start">>
  ELSE IF "package.json" \in dir.files /\ dir.main # "" /\ dir.main \in dir.files
    THEN <<"node", dir.main>>
  ELSE IF find(commonEntries, dir.files) # ""
    THEN <<"node", find(commonEntries, dir.files)>>
  ELSE <<>>

\* `${serverId}-${Date.now()}`
processId(serverId, time) == <<serverId, time>>

\* this.processes.set(processId, childProcess) applied to <<processes, procs>>
register(reg, id, pid, state) ==
  <<Put(reg[1], id, pid),
    Put(reg[2], pid, [handle |-> id, state |-> state, signalled |-> FALSE])>>

\* mutant of stopProcess: the process is looked up by its server, not by its id
stopProcessOfServer(reg, id) ==
  LET hit == {k \in DOMAIN reg[1] : k[1] = id[1]}
  IN  <<[k \in DOMAIN reg[1] \ hit |-> reg[1][k]],
        [pid \in DOMAIN reg[2] |->
           IF \E k \in hit : reg[1][k] = pid
             THEN [reg[2][pid] EXCEPT !.signalled = TRUE]
             ELSE reg[2][pid]]>>

\* stopProcess(processId) applied to <<processes, procs>>
stopProcess(reg, id) ==
  IF id \in DOMAIN reg[1]
    THEN <<Remove(reg[1], id),
           [reg[2] EXCEPT ![reg[1][id]].signalled = TRUE]>>
    ELSE reg

\* mutant of unregister: the listener forgets to delete the entry
unregisterNothing(reg, id) == reg

\* this.processes.delete(processId) in the close and error listeners
unregister(reg, id) == Remove(reg, id)

\* the process pid is gone: the children are numbered by age, 1 the oldest
reap(reg, pid) ==
  <<[id \in DOMAIN reg[1] |-> IF reg[1][id] > pid THEN reg[1][id] - 1 ELSE reg[1][id]],
    [q \in 1..(Cardinality(DOMAIN reg[2]) - 1) |->
       IF q < pid THEN reg[2][q] ELSE reg[2][q + 1]]>>

StopIfAny(id) ==
  LET out == IF id # NULL THEN stopProcess(<<processes, procs>>, id)
                          ELSE <<processes, procs>>
  IN  /\ processes' = out[1]
      /\ procs' = out[2]

\* the error the resolver or npm install throws: readdir of a missing
\* directory, no entry point, a failed npm install
ErrorAt(r) ==
  IF r.pc = "resolve"
    THEN (IF r.dir \notin DOMAIN fs THEN "ENOENT" ELSE "No valid entry point found")
  ELSE "npm install failed"

\* startProcess throws error: the start handler's catch logs and goes on to
\* write "stopped"; the restart handler's catch only answers 500
ThrowWith(r, msgs, error) ==
  IF r.kind = "start"
    THEN /\ Log(r.sid, msgs \o <<"Start failed">>)
         /\ requests' = Become(requests, r, [r EXCEPT !.pc = "failupdate",
                                                        !.error = error])
         /\ Silent
    ELSE /\ Log(r.sid, msgs)
         /\ Respond(r, 500, NULL)

\* the resolver or npm install throws
Throw(r, msgs) == ThrowWith(r, msgs, ErrorAt(r))

\* spawn(command, args), processes.set, the listeners, return processId
Launch(r, outcome) ==
  IF outcome = "throw"
    THEN /\ ThrowWith(r, <<"Starting process">>, "spawn")
         /\ UNCHANGED procVars
    ELSE /\ Cardinality(DOMAIN procs) < MaxProcs
         /\ LET id == processId(r.sid, now)
                out == register(<<processes, procs>>, id,
                                Cardinality(DOMAIN procs) + 1,
                                IF outcome = "ok" THEN "running" ELSE "failed")
            IN  /\ processes' = out[1]
                /\ procs' = out[2]
                /\ requests' = Become(requests, r, [r EXCEPT !.pc = "update", !.h = id])
         /\ Silent
         /\ Log(r.sid, <<"Starting process">>)

SpawnOutcomes == {"ok", "enoent", "throw"}

InStartProcess(r, pc) ==
  /\ Quiet
  /\ r \in DOMAIN requests
  /\ r.kind \in {"start", "restart"}
  /\ r.pc = pc

\* readdir, package.json, the choice of startScript
Resolve(r) ==
  /\ InStartProcess(r, "resolve")
  /\ IF r.dir \notin DOMAIN fs
       THEN Throw(r, <<>>)
     ELSE IF startScript(fs[r.dir]) = <<>>
       THEN Throw(r, <<"Found files">>)
     ELSE /\ requests' = Become(requests, r,
                                 [r EXCEPT !.pc = "install",
                                           !.script = startScript(fs[r.dir])])
          /\ Silent
          /\ Log(r.sid, <<"Found files", "Using entry", "Checking for package.json">>)
  /\ UNCHANGED <<storageVars, fsVars, procVars, now, wsVars>>

\* mutant of Install: the process is spawned without npm install
InstallSkippingNpm(r) ==
  /\ InStartProcess(r, "install")
  /\ \E outcome \in SpawnOutcomes : Launch(r, outcome)
  /\ UNCHANGED <<storageVars, fsVars, now, wsVars>>

\* pathExists(packageJsonPath): npm install is started, or the process is spawned
Install(r) ==
  /\ InStartProcess(r, "install")
  /\ IF r.dir \in DOMAIN fs /\ "package.json" \in fs[r.dir].files
       THEN /\ Goto(r, "npm")
            /\ Log(r.sid, <<"Running npm install...">>)
            /\ UNCHANGED procVars
       ELSE \E outcome \in SpawnOutcomes : Launch(r, outcome)
  /\ UNCHANGED <<storageVars, fsVars, now, wsVars>>

\* mutant of NpmClose: the exit code of npm install is ignored
NpmCloseAnyCode(r, code) ==
  /\ InStartProcess(r, "npm")
  /\ \E outcome \in SpawnOutcomes : Launch(r, outcome)
  /\ UNCHANGED <<storageVars, fsVars, now, wsVars>>

\* npmInstall.on("close", code)
NpmClose(r, code) ==
  /\ InStartProcess(r, "npm")
  /\ IF code = 0
       THEN \E outcome \in SpawnOutcomes : Launch(r, outcome)
       ELSE /\ Throw(r, <<>>)
            /\ UNCHANGED procVars
  /\ UNCHANGED <<storageVars, fsVars, now, wsVars>>

\* childProcess.on("error"): a spawn that failed asynchronously
ProcError(pid) ==
  /\ pid \in DOMAIN procs
  /\ procs[pid].state = "failed"
  /\ processes' = unregister(processes, procs[pid].handle)
  /\ procs' = [procs EXCEPT ![pid].state = "errored"]
  /\ Log(procs[pid].handle[1], <<"Process error">>)
  /\ Silent
  /\ UNCHANGED <<storageVars, fsVars, requests, now, wsVars>>

\* mutant of ProcClose: the exit line is logged by two listeners
ProcCloseTwoLines(pid) ==
  /\ Quiet
  /\ pid \in DOMAIN procs
  /\ procs[pid].state \in {"running", "errored"}
  /\ LET out == reap(<<unregister(processes, procs[pid].handle), procs>>, pid)
     IN  /\ processes' = out[1]
         /\ procs' = out[2]
  /\ Log(procs[pid].handle[1], <<"Process exited with code", "Process exited with code">>)
  /\ Silent
  /\ UNCHANGED <<storageVars, fsVars, requests, now, wsVars>>

\* mutant of ProcClose: the close listener also marks the record stopped
ProcCloseMarkingStopped(pid) ==
  /\ Quiet
  /\ pid \in DOMAIN procs
  /\ procs[pid].state \in {"running", "errored"}
  /\ LET out == reap(<<unregister(processes, procs[pid].handle), procs>>, pid)
     IN  /\ processes' = out[1]
         /\ procs' = out[2]
  /\ servers' = updateServer(servers, procs[pid].handle[1], NULL, "stopped")
  /\ Log(procs[pid].handle[1], <<"Process exited with code">>)
  /\ Silent
  /\ UNCHANGED <<nextId, fsVars, requests, now, wsVars>>

\* childProcess.on("close"): the process is gone
ProcClose(pid) ==
  /\ Quiet
  /\ pid \in DOMAIN procs
  /\ procs[pid].state \in {"running", "errored"}
  /\ LET out == reap(<<unregister(processes, procs[pid].handle), procs>>, pid)
     IN  /\ processes' = out[1]
         /\ procs' = out[2]
  /\ Log(procs[pid].handle[1], <<"Process exited with code">>)
  /\ Silent
  /\ UNCHANGED <<storageVars, fsVars, requests, now, wsVars>>

\* output chunks a child writes to a pipe
Chunks == {"ready", "ready\n"}

\* data.toString().trim()
trim(chunk) == IF chunk = "ready\n" THEN "ready" ELSE chunk

\* the prefix an output listener puts before the chunk
Tag(origin) ==
  IF origin = "npm" THEN "[npm] "
  ELSE IF origin = "stdout" THEN "[stdout] "
  ELSE "[stderr] "

\* mutant of Line: the chunk is forwarded without its origin
LineUntagged(origin, chunk) == trim(chunk)

\* `[stdout] ${data.toString().trim()}`
Line(origin, chunk) == Tag(origin) \o trim(chunk)

\* npmInstall.stdout / npmInstall.stderr .on("data"): onLog(`[npm] ...`)
NpmOutput(r, chunk) ==
  /\ InStartProcess(r, "npm")
  /\ Log(r.sid, <<Line("npm", chunk)>>)
  /\ Silent
  /\ UNCHANGED <<storageVars, fsVars, requests, procVars, now, wsVars>>

\* childProcess.stdout / childProcess.stderr .on("data"): the pipes of a
\* child deliver data until they end, and 'close' fires after they ended
ProcOutput(pid, stream, chunk) ==
  /\ Quiet
  /\ pid \in DOMAIN procs
  /\ procs[pid].state = "running"
  /\ Log(procs[pid].handle[1], <<Line(stream, chunk)>>)
  /\ Silent
  /\ UNCHANGED <<storageVars, fsVars, requests, procVars, now, wsVars>>

(* ----------------------- /api/servers/:id handlers -------------------- *)
\* POST /api/servers/:id/start arrives: getServer and the ownership test
StartGet(user, sid) ==
  /\ Quiet
  /\ IF ~Found(sid, user)
       THEN /\ Answer("start", 404, NULL)
            /\ UNCHANGED requests
       ELSE Suspend(MaxInFlight, [Request("start", user, sid, "check")
                                   EXCEPT !.dir = servers[sid].rootPath,
                                          !.status = servers[sid].status])
  /\ UNCHANGED <<storageVars, fsVars, procVars, now, wsVars, logVars>>

\* pathExists(rootPath), readdir: the directory must exist and hold files
StartCheck(r) ==
  /\ At(r, "start", "check")
  /\ IF r.dir \notin DOMAIN fs
       THEN /\ Log(r.sid, <<"Error: Server directory not found">>)
            /\ Respond(r, 400, NULL)
     ELSE IF fs[r.dir].files = {}
       THEN /\ Log(r.sid, <<"Error: No files found">>)
            /\ Respond(r, 400, NULL)
     ELSE /\ Log(r.sid, <<"Starting bot process...", "Analyzing project structure...">>)
          /\ Goto(r, "resolve")
  /\ UNCHANGED <<storageVars, fsVars, procVars, now, wsVars>>

\* storage.updateServer(id, {processId, status: "running"}), res.json
Started(r) ==
  /\ InStartProcess(r, "update")
  /\ servers' = updateServer(servers, r.sid, r.h, "running")
  /\ Respond(r, 200, r.h)
  /\ UNCHANGED <<nextId, fsVars, procVars, now, wsVars, logVars>>

\* the start handler's catch: updateServer(id, {processId: null, "stopped"})
StartFailed(r) ==
  /\ At(r, "start", "failupdate")
  /\ servers' = updateServer(servers, r.sid, NULL, "stopped")
  /\ Respond(r, 500, NULL)
  /\ UNCHANGED <<nextId, fsVars, procVars, now, wsVars, logVars>>

\* POST /api/servers/:id/stop: getServer, stopProcess(server.processId)
StopGet(user, sid) ==
  /\ Quiet
  /\ IF ~Found(sid, user)
       THEN /\ Answer("stop", 404, NULL)
            /\ UNCHANGED <<requests, procVars, logVars>>
       ELSE /\ StopIfAny(servers[sid].processId)
            /\ Log(sid, IF servers[sid].processId # NULL
                          THEN <<"Bot process stopped">> ELSE <<>>)
            /\ Suspend(MaxInFlight, Request("stop", user, sid, "update"))
  /\ UNCHANGED <<storageVars, fsVars, now, wsVars>>

\* updateServer(id, {processId: null, status: "stopped"}), res.json
Stopped(r) ==
  /\ At(r, "stop", "update")
  /\ servers' = updateServer(servers, r.sid, NULL, "stopped")
  /\ Respond(r, 200, NULL)
  /\ UNCHANGED <<nextId, fsVars, procVars, now, wsVars, logVars>>

\* POST /api/servers/:id/restart: getServer, stopProcess, startProcess begins
RestartGet(user, sid) ==
  /\ Quiet
  /\ IF ~Found(sid, user)
       THEN /\ Answer("restart", 404, NULL)
            /\ UNCHANGED <<requests, procVars, logVars>>
       ELSE /\ StopIfAny(servers[sid].processId)
            /\ Log(sid, IF servers[sid].processId # NULL
                          THEN <<"Restarting bot process...", "Analyzing project structure...">>
                          ELSE <<"Analyzing project structure...">>)
            /\ Suspend(MaxInFlight, [Request("restart", user, sid, "resolve")
                                       EXCEPT !.dir = servers[sid].rootPath])
  /\ UNCHANGED <<storageVars, fsVars, now, wsVars>>

\* DELETE /api/servers/:id: getServer, stopProcess(server.processId)
DeleteGet(user, sid) ==
  /\ Quiet
  /\ IF ~Found(sid, user)
       THEN /\ Answer("delete", 404, NULL)
            /\ UNCHANGED <<requests, procVars>>
       ELSE /\ StopIfAny(servers[sid].processId)
            /\ Suspend(MaxInFlight, [Request("delete", user, sid, "rmdir")
                                       EXCEPT !.dir = servers[sid].rootPath])
  /\ UNCHANGED <<storageVars, fsVars, now, wsVars, logVars>>

\* fileService.deleteServerDirectory(server.rootPath)
DeleteDir(r) ==
  /\ At(r, "delete", "rmdir")
  /\ fs' = Remove(fs, r.dir)
  /\ Goto(r, "delete")
  /\ UNCHANGED <<storageVars, nextDir, procVars, now, wsVars, logVars>>

\* storage.deleteServer(id), broadcastLog, res.json
DeleteRow(r) ==
  /\ At(r, "delete", "delete")
  /\ servers' = Remove(servers, r.sid)
  /\ Log(r.sid, <<"deleted">>)
  /\ Respond(r, 200, NULL)
  /\ UNCHANGED <<nextId, fsVars, procVars, now, wsVars>>

\* PUT /api/servers/:id: getServer and the ownership test; status is the
\* status field of req.body
UpdateGet(user, sid, status) ==
  /\ Quiet
  /\ IF ~Found(sid, user)
       THEN /\ Answer("update", 404, NULL)
            /\ UNCHANGED requests
       ELSE Suspend(MaxInFlight, [Request("update", user, sid, "set")
                                   EXCEPT !.body = status])
  /\ UNCHANGED <<storageVars, fsVars, procVars, now, wsVars, logVars>>

\* storage.updateServer(req.params.id, req.body), res.json(updatedServer)
UpdateSet(r) ==
  /\ At(r, "update", "set")
  /\ servers' = updateServerWith(servers, r.sid, [status |-> r.body])
  /\ Respond(r, 200, NULL)
  /\ UNCHANGED <<nextId, fsVars, procVars, now, wsVars, logVars>>

\* POST /api/servers/:id/upload: getServer and the ownership test
UploadGet(user, sid, zip) ==
  /\ Quiet
  /\ IF ~Found(sid, user)
       THEN /\ Answer("upload", 404, NULL)
            /\ UNCHANGED requests
       ELSE Suspend(MaxInFlight, [Request("upload", user, sid, "extract")
                                   EXCEPT !.dir = servers[sid].rootPath, !.zip = zip])
  /\ UNCHANGED <<storageVars, fsVars, procVars, now, wsVars, logVars>>

\* fileService.uploadAndExtractZip(req.file.path, server.rootPath)
UploadExtract(r) ==
  /\ At(r, "upload", "extract")
  /\ fs' = Put(fs, r.dir,
               Extract(IF r.dir \in DOMAIN fs
                         THEN fs[r.dir] ELSE EmptyDir,
                       r.zip))
  /\ Log(r.sid, <<"ZIP file uploaded and extracted">>)
  /\ Respond(r, 200, NULL)
  /\ UNCHANGED <<storageVars, nextDir, procVars, now, wsVars>>

(* --------------------------- the file routes -------------------------- *)
\* GET /api/servers/:id: getServer, the ownership test, res.json(server)
GetServer(user, sid) ==
  /\ Quiet
  /\ IF ~Found(sid, user)
       THEN Answer("get", 404, NULL)
       ELSE Answer("get", 200, servers[sid].processId)
  /\ UNCHANGED <<storageVars, fsVars, requests, procVars, now, wsVars, logVars>>

\* GET /api/servers/:id/files: getServer and the ownership test
FilesGet(user, sid) ==
  /\ Quiet
  /\ IF ~Found(sid, user)
       THEN /\ Answer("files", 404, NULL)
            /\ UNCHANGED requests
       ELSE Suspend(MaxInFlight, [Request("files", user, sid, "list")
                                   EXCEPT !.dir = servers[sid].rootPath])
  /\ UNCHANGED <<storageVars, fsVars, procVars, now, wsVars, logVars>>

\* fileService.listFiles(server.rootPath, subPath), res.json(files):
\* [] for a missing directory, the entries otherwise
FilesList(r) ==
  /\ At(r, "files", "list")
  /\ Respond(r, 200, NULL)
  /\ UNCHANGED <<storageVars, fsVars, procVars, now, wsVars, logVars>>

\* the files a project holds at the top of its directory
FileNames == {"index.js", "bot.js", "package.json"}

\* path.extname(fileName) and path.basename(fileName, ext)
extname(fileName) == IF fileName = "package.json" THEN ".json" ELSE ".js"

nameWithoutExt(fileName) ==
  CASE fileName = "index.js" -> "index"
    [] fileName = "bot.js" -> "bot"
    [] fileName = "package.json" -> "package"

\* path.join(rootMovedPath, fileName), relative to the server directory
targetPath(fileName) == ".root_moved/" \o fileName

\* path.join(rootMovedPath, `${nameWithoutExt}_${timestamp}${ext}`)
stampedPath(fileName, timestamp) ==
  ".root_moved/" \o nameWithoutExt(fileName) \o "_" \o ToString(timestamp)
                 \o extname(fileName)

\* the paths under .root_moved
RootMoved ==
  {targetPath(f) : f \in FileNames}
    \cup {stampedPath(f, t) : f \in FileNames, t \in 0..MaxClock}

RECURSIVE moveEach(_, _, _)
\* the loop of moveFilesToRoot over filePaths: a source that exists is moved
\* to its target, or to the stamped target when the target exists; fs.move
\* throws when its destination exists
moveEach(files, filePaths, timestamp) ==
  IF filePaths = <<>> THEN [files |-> files, thrown |-> FALSE]
  ELSE LET filePath == Head(filePaths)
           final == IF targetPath(filePath) \in files
                      THEN stampedPath(filePath, timestamp)
                      ELSE targetPath(filePath)
       IN  IF filePath \notin files
             THEN moveEach(files, Tail(filePaths), timestamp)
           ELSE IF final \in files
             THEN [files |-> files, thrown |-> TRUE]
           ELSE moveEach((files \ {filePath}) \cup {final}, Tail(filePaths), timestamp)

\* fileService.moveFilesToRoot(serverPath, filePaths): ensureDir(.root_moved)
\* makes the directory, and the server directory with it, then the loop runs
moveFilesToRoot(dir, filePaths, timestamp) ==
  LET out == moveEach(dir.files \cup {".root_moved"}, filePaths, timestamp)
  IN  [dir |-> [dir EXCEPT !.files = out.files], thrown |-> out.thrown]

\* POST /api/servers/:id/move-to-root: getServer and the ownership test
MoveGet(user, sid, filePaths) ==
  /\ Quiet
  /\ IF ~Found(sid, user)
       THEN /\ Answer("move", 404, NULL)
            /\ UNCHANGED requests
       ELSE Suspend(MaxInFlight, [Request("move", user, sid, "move")
                                   EXCEPT !.dir = servers[sid].rootPath,
                                          !.filePaths = filePaths])
  /\ UNCHANGED <<storageVars, fsVars, procVars, now, wsVars, logVars>>

\* moveFilesToRoot, broadcastLog, res.json; the catch answers 400
MoveFiles(r) ==
  /\ At(r, "move", "move")
  /\ LET out == moveFilesToRoot(IF r.dir \in DOMAIN fs THEN fs[r.dir] ELSE EmptyDir,
                                r.filePaths, now)
     IN  /\ fs' = Put(fs, r.dir, out.dir)
         /\ IF out.thrown
              THEN /\ Log(r.sid, <<"Move to root failed">>)
                   /\ Respond(r, 400, NULL)
              ELSE /\ Log(r.sid, <<"Moved files to root directory">>)
                   /\ Respond(r, 200, NULL)
  /\ UNCHANGED <<storageVars, nextDir, procVars, now, wsVars>>

\* the core files deleteFile refuses to remove outside .root_moved
protectedFiles ==
  {"package.json", "package-lock.json", "yarn.lock", "index.js", "main.js",
   "app.js", "server.js", "bot.js", "config.js", "command.js"}

\* deleteFile throws for a protected file name that is not under .root_moved
isProtected(filePath) == filePath \notin RootMoved /\ filePath \in protectedFiles

\* DELETE /api/servers/:id/files: getServer and the ownership test
DeleteFileGet(user, sid, filePath) ==
  /\ Quiet
  /\ IF ~Found(sid, user)
       THEN /\ Answer("deletefile", 404, NULL)
            /\ UNCHANGED requests
       ELSE Suspend(MaxInFlight, [Request("deletefile", user, sid, "remove")
                                   EXCEPT !.dir = servers[sid].rootPath,
                                          !.body = filePath])
  /\ UNCHANGED <<storageVars, fsVars, procVars, now, wsVars, logVars>>

\* fileService.deleteFile(path.join(rootPath, filePath)), broadcastLog,
\* res.json; the catch answers 400
DeleteFile(r) ==
  /\ At(r, "deletefile", "remove")
  /\ IF isProtected(r.body)
       THEN /\ fs' = fs
            /\ Log(r.sid, <<"Delete failed">>)
            /\ Respond(r, 400, NULL)
       ELSE /\ fs' = IF r.dir \in DOMAIN fs
                       THEN [fs EXCEPT ![r.dir].files = @ \ {r.body}]
                       ELSE fs
            /\ Log(r.sid, <<"File deleted">>)
            /\ Respond(r, 200, NULL)
  /\ UNCHANGED <<storageVars, nextDir, procVars, now, wsVars>>

\* ---------------------------------------------------------------------
\* The browser side: useWebSocket(path)
\* ---------------------------------------------------------------------
Paths == {1, 2}        \* values of the path prop
MaxSockets == 3        \* WebSocket objects the page creates
ReconnectDelay == 3    \* setTimeout(..., 3000), in seconds

\* the hook before its effect has run: socketRef.current is null
Unmounted ==
  [phase |-> "new", path |-> 0, current |-> 0, socks |-> <<>>,
   timers |-> <<>>, isConnected |-> FALSE]

\* setIsConnected(v): a state update of an unmounted component is dropped
setIsConnected(h, v) ==
  IF h.phase = "mounted" THEN [h EXCEPT !.isConnected = v] ELSE h

\* connect(): socket = new WebSocket(wsUrl); socketRef.current = socket
connect(h, wsUrl) ==
  [h EXCEPT !.socks = Append(@, [wsUrl |-> wsUrl, readyState |-> "CONNECTING"]),
            !.current = Len(h.socks) + 1]

\* the effect's cleanup: if (socketRef.current) socketRef.current.close()
cleanup(h) ==
  IF h.current # 0 /\ h.socks[h.current].readyState \in {"CONNECTING", "OPEN"}
    THEN [h EXCEPT !.socks[h.current].readyState = "CLOSING"]
    ELSE h

HookStep(h) ==
  /\ Quiet
  /\ hook' = h
  /\ Silent
  /\ UNCHANGED <<storageVars, fsVars, requests, procVars, now,
                 serverConnections, sockets, logVars>>

\* first render: the effect runs connect()
Mount(path) ==
  /\ hook.phase = "new"
  /\ HookStep(connect([hook EXCEPT !.phase = "mounted", !.path = path], path))

\* the path prop changes: the old effect's cleanup, then the new effect
PathChange(path) ==
  /\ hook.phase = "mounted"
  /\ path # hook.path
  /\ Len(hook.socks) < MaxSockets
  /\ HookStep(connect([cleanup(hook) EXCEPT !.path = path], path))

\* the component unmounts: the effect's cleanup
Unmount ==
  /\ hook.phase = "mounted"
  /\ HookStep([cleanup(hook) EXCEPT !.phase = "unmounted"])

\* socket.onopen
onopen(i) ==
  /\ i \in 1..Len(hook.socks)
  /\ hook.socks[i].readyState = "CONNECTING"
  /\ HookStep(setIsConnected([hook EXCEPT !.socks[i].readyState = "OPEN"], TRUE))

\* the connection ends (refused, dropped, or the closing handshake is over):
\* readyState is CLOSED, socket.onerror if it failed, then socket.onclose,
\* which arms the reconnect timer of the effect that created the socket
onclose(i) ==
  /\ i \in 1..Len(hook.socks)
  /\ hook.socks[i].readyState # "CLOSED"
  /\ HookStep(setIsConnected(
       [hook EXCEPT !.socks[i].readyState = "CLOSED",
                    !.timers = Append(@, [left |-> ReconnectDelay,
                                          wsUrl |-> hook.socks[i].wsUrl])],
       FALSE))

\* a second passes; a timer that is due runs first
Elapse ==
  /\ hook.timers # <<>>
  /\ \A k \in 1..Len(hook.timers) : hook.timers[k].left > 0
  /\ HookStep([hook EXCEPT !.timers =
                 [k \in 1..Len(hook.timers) |->
                    [hook.timers[k] EXCEPT !.left = @ - 1]]])

\* the setTimeout callback:
\* if (socketRef.current?.readyState === WebSocket.CLOSED) connect()
timeout(k) ==
  /\ k \in 1..Len(hook.timers)
  /\ hook.timers[k].left = 0
  /\ LET h == [hook EXCEPT !.timers = SubSeq(@, 1, k - 1) \o SubSeq(@, k + 1, Len(@))]
     IN  IF h.current # 0 /\ h.socks[h.current].readyState = "CLOSED"
           THEN /\ Len(h.socks) < MaxSockets
                /\ HookStep(connect(h, hook.timers[k].wsUrl))
           ELSE HookStep(h)

Init ==
  /\ servers = <<>>
  /\ nextId = 1
  /\ fs = <<>>
  /\ nextDir = 1
  /\ requests = <<>>
  /\ lastResponse = NoResponse
  /\ processes = <<>>
  /\ procs = <<>>
  /\ now = 0
  /\ serverConnections = <<>>
  /\ sockets = <<>>
  /\ inbox = <<>>
  /\ calls = <<>>
  /\ hook = Unmounted

NextLog ==
  \/ \E topic \in Topics \cup {NoTopic} : Connection(topic)
  \/ \E ws \in 1..MaxConns : Closing(ws)
  \/ \E ws \in 1..MaxConns : SocketClose(ws)
  \/ \E serverId \in Topics, message \in Messages : Broadcast(serverId, message)
  \/ Tick

SpecLog == Init /\ [][NextLog]_vars

Step(r) ==
  \/ CreateDir(r) \/ CreateInsert(r)
  \/ UploadExtract(r)
  \/ StartCheck(r) \/ Started(r) \/ StartFailed(r)
  \/ Resolve(r) \/ Install(r)
  \/ \E code \in {0, 1} : NpmClose(r, code)
  \/ Stopped(r)
  \/ DeleteDir(r) \/ DeleteRow(r)

Next ==
  \/ \E user \in Owners : CreateCount(user, "valid", MaxInFlight, MaxServers)
  \/ \E user \in Owners, sid \in Ids, zip \in Zips : UploadGet(user, sid, zip)
  \/ \E user \in Owners, sid \in Ids : StartGet(user, sid)
  \/ \E user \in Owners, sid \in Ids : StopGet(user, sid)
  \/ \E user \in Owners, sid \in Ids : RestartGet(user, sid)
  \/ \E user \in Owners, sid \in Ids : DeleteGet(user, sid)
  \/ \E r \in DOMAIN requests : Step(r)
  \/ \E pid \in 1..MaxProcs : ProcError(pid)
  \/ \E pid \in 1..MaxProcs : ProcClose(pid)
  \/ Tick

Spec == Init /\ [][Next]_vars

NextCreate ==
  \/ \E user \in Users, body \in {"valid", "invalid"} :
       CreateCount(user, body, MaxInFlight, MaxCreates)
  \/ \E user \in Users, sid \in 1..MaxCreates : DeleteGet(user, sid)
  \/ \E r \in DOMAIN requests :
       CreateDir(r) \/ CreateInsert(r) \/ DeleteDir(r) \/ DeleteRow(r)

SpecCreate == Init /\ [][NextCreate]_vars

(* ------------------- requests with an arbitrary body ------------------ *)
\* the status values of the data model
Statuses == {"stopped", "running", "error"}

\* status fields a request body can carry: text is the column's only type
BodyStatuses == Statuses \cup {"paused"}

NextUpdate ==
  \/ \E user \in Owners, body \in {"valid"} \cup BodyStatuses :
       CreateCount(user, body, MaxInFlight, MaxServers)
  \/ \E user \in Owners, sid \in Ids, status \in BodyStatuses :
       UpdateGet(user, sid, status)
  \/ \E user \in Owners, sid \in Ids, zip \in Zips : UploadGet(user, sid, zip)
  \/ \E user \in Owners, sid \in Ids : StartGet(user, sid)
  \/ \E user \in Owners, sid \in Ids : StopGet(user, sid)
  \/ \E user \in Owners, sid \in Ids : RestartGet(user, sid)
  \/ \E r \in DOMAIN requests :
       \/ CreateDir(r) \/ CreateInsert(r)
       \/ UpdateSet(r)
       \/ UploadExtract(r)
       \/ StartCheck(r) \/ Started(r) \/ StartFailed(r)
       \/ Resolve(r) \/ Install(r)
       \/ \E code \in {0, 1} : NpmClose(r, code)
       \/ Stopped(r)
  \/ \E pid \in 1..MaxProcs : ProcError(pid)
  \/ \E pid \in 1..MaxProcs : ProcClose(pid)

SpecUpdate == Init /\ [][NextUpdate]_vars

(* --------------------- the resolver over all layouts ------------------ *)
\* names a directory listing can hold: the manifest, three names of the
\* fallback list and one name outside it
Names == {"package.json", "index.js", "app.js", "bot.js", "lib.js"}

\* packageJson.main: not specified, a name outside the fallback list, a
\* name of the fallback list
Mains == {"", "lib.js", "bot.js"}

\* the layouts of an execution directory; scripts.start and main are read
\* from package.json, so they are set only where the manifest exists
Dirs ==
  {d \in {[files |-> f, start |-> s, main |-> m] :
             f \in SUBSET Names, s \in BOOLEAN, m \in Mains} :
     "package.json" \notin d.files => (~d.start /\ d.main = "")}

\* one server of user 1 exists and its directory holds an uploaded project
InitResolve ==
  /\ servers = Put(<<>>, 1, [userId |-> 1, status |-> "stopped",
                              processId |-> NULL, rootPath |-> 1])
  /\ nextId = 2
  /\ \E d \in Dirs : fs = Put(<<>>, 1, d)
  /\ nextDir = 2
  /\ requests = <<>>
  /\ lastResponse = NoResponse
  /\ processes = <<>>
  /\ procs = <<>>
  /\ now = 0
  /\ serverConnections = <<>>
  /\ sockets = <<>>
  /\ inbox = <<>>
  /\ calls = <<>>
  /\ hook = Unmounted

NextResolve ==
  \/ \E user \in Owners, sid \in Ids : StartGet(user, sid)
  \/ \E user \in Owners, sid \in Ids : RestartGet(user, sid)
  \/ \E r \in DOMAIN requests :
       \/ StartCheck(r) \/ Started(r) \/ StartFailed(r)
       \/ Resolve(r) \/ Install(r)
       \/ \E code \in {0, 1} : NpmClose(r, code)
  \/ \E pid \in 1..MaxProcs : ProcError(pid)
  \/ \E pid \in 1..MaxProcs : ProcClose(pid)

SpecResolve == InitResolve /\ [][NextResolve]_vars

(* ----------------------- handlers with listeners --------------------- *)
\* log lines broadcast to a connection set before new requests and new
\* output chunks stop arriving
MaxLines == 7

\* two servers of user 1 hold uploaded projects (the first with a manifest
\* and a start script, the second with index.js only), and a dashboard
\* connection is registered and open for each
InitOutput ==
  /\ servers = [id \in Topics |-> [userId |-> 1, status |-> "stopped",
                                     processId |-> NULL, rootPath |-> id]]
  /\ nextId = 3
  /\ fs = [id \in Topics |-> IF id = 1 THEN Extract(EmptyDir, ZipStart)
                                          ELSE Extract(EmptyDir, ZipPlain)]
  /\ nextDir = 3
  /\ requests = <<>>
  /\ lastResponse = NoResponse
  /\ processes = <<>>
  /\ procs = <<>>
  /\ now = 0
  /\ serverConnections = [id \in Topics |-> {id}]
  /\ sockets = [ws \in Topics |-> [topic |-> ws, readyState |-> "OPEN", since |-> 0]]
  /\ inbox = [ws \in Topics |-> <<>>]
  /\ calls = <<>>
  /\ hook = Unmounted

\* output chunks the children write before they fall silent
MaxChunks == 2

\* one request at a time, while the log is short
Arrives == requests = <<>> /\ Len(calls) < MaxLines

OutputLines ==
  {Line(origin, chunk) : origin \in {"npm", "stdout", "stderr"}, chunk \in Chunks}

\* a child still has output to write
Writes ==
  Cardinality({i \in 1..Len(calls) : calls[i].message \in OutputLines}) < MaxChunks

NextOutput ==
  \/ \E user \in Owners, sid \in Topics : Arrives /\ StartGet(user, sid)
  \/ \E user \in Owners, sid \in Topics : Arrives /\ RestartGet(user, sid)
  \/ \E r \in DOMAIN requests :
       \/ StartCheck(r) \/ Started(r) \/ StartFailed(r)
       \/ Resolve(r) \/ Install(r)
       \/ \E code \in {0, 1} : NpmClose(r, code)
  \/ \E r \in DOMAIN requests, chunk \in Chunks :
       Writes /\ NpmOutput(r, chunk)
  \/ \E pid \in 1..MaxProcs, stream \in {"stdout", "stderr"}, chunk \in Chunks :
       Writes /\ ProcOutput(pid, stream, chunk)
  \/ \E pid \in 1..MaxProcs : ProcError(pid)
  \/ \E pid \in 1..MaxProcs : ProcClose(pid)

SpecOutput == InitOutput /\ [][NextOutput]_vars

(* ======================= properties of the server cap ================= *)
\* C1: in every reachable state, also under interleaved POST /api/servers
\* requests of one user, no user owns more than 3 server records.
C1_AtMostThreeServers ==
  \A user \in Users : Cardinality(getServersByUserId(user)) <= ServerLimit

\* C2: a creation request by a user who already owns 3 records is answered
\* with an error and creates no record, no directory and no pending work.
C2_FourthCreateRejected ==
  [][\A user \in Users, body \in {"valid", "invalid"} :
       (/\ Cardinality(getServersByUserId(user)) >= ServerLimit
        /\ CreateCount(user, body, MaxInFlight, MaxCreates))
       => (/\ lastResponse' = Response("create", 400, NULL)
           /\ servers' = servers
           /\ fs' = fs
           /\ nextDir' = nextDir
           /\ requests' = requests)]_vars

\* a user owns 3 records and a creation request has just been rejected
C2_Witness ==
  /\ lastResponse = Response("create", 400, NULL)
  /\ \E user \in Users : Cardinality(getServersByUserId(user)) = ServerLimit

(* ===================== properties of the process registry ============= *)
HandlesOf(sid) == {id \in DOMAIN processes : id[1] = sid}

\* C3: in every reachable state the registry holds at most one handle whose
\* process was started for a given server.
C3_OneHandlePerServer ==
  \A sid \in Ids : Cardinality(HandlesOf(sid)) <= 1

\* C4: a start request that read status "running", alone in flight while the
\* record still shows the running, registered process, spawns no process and
\* registers no handle.
C4_NoSecondSpawn ==
  [][\A r \in DOMAIN requests :
       (/\ r.kind = "start"
        /\ r.status = "running"
        /\ BagSize(requests) = 1
        /\ r.sid \in DOMAIN servers
        /\ servers[r.sid].status = "running"
        /\ servers[r.sid].processId \in DOMAIN processes)
       => (/\ Cardinality(DOMAIN procs') <= Cardinality(DOMAIN procs)
           /\ DOMAIN processes' \subseteq DOMAIN processes)]_vars

\* C5: the handle id startProcess returns is in the registry when it returns,
\* and the step in which the process's close or error event fires leaves the
\* id absent from the registry.
C5_RegisteredUntilExit ==
  [][/\ \A r \in DOMAIN requests' :
          (/\ r.kind \in {"start", "restart"}
           /\ r.pc = "update"
           /\ Count(requests', r) > Count(requests, r))
          => r.h \in DOMAIN processes'
     /\ \A pid \in DOMAIN procs :
          (ProcClose(pid) \/ ProcError(pid))
          => procs[pid].handle \notin DOMAIN processes']_vars

\* a started server whose process has exited: the handle it was given is gone
C5_Witness ==
  \E sid \in DOMAIN servers :
    /\ servers[sid].status = "running"
    /\ servers[sid].processId # NULL
    /\ servers[sid].processId \notin DOMAIN processes
    /\ \A pid \in DOMAIN procs : procs[pid].handle # servers[sid].processId

C7_StopUnknownIsNoOp ==
  [][\A user \in Users, sid \in Ids :
       (/\ Found(sid, user)
        /\ servers[sid].processId # NULL
        /\ servers[sid].processId \notin DOMAIN processes
        /\ (StopGet(user, sid) \/ RestartGet(user, sid) \/ DeleteGet(user, sid)))
       => (/\ processes' = processes
           /\ procs' = procs
           /\ lastResponse' = NoResponse)]_vars

\* a stop request went past stopProcess with a handle whose process had gone,
\* while another process of the server is registered and has not been signalled
C7_Witness ==
  \E r \in DOMAIN requests :
    /\ r.kind = "stop"
    /\ r.pc = "update"
    /\ r.sid \in DOMAIN servers
    /\ servers[r.sid].processId # NULL
    /\ servers[r.sid].processId \notin DOMAIN processes
    /\ \A pid \in DOMAIN procs : procs[pid].handle # servers[r.sid].processId
    /\ \E id \in DOMAIN processes : ~procs[processes[id]].signalled

\* C8: stopProcess on a registered handle signals the process and removes
\* the handle at once; when the close event of a stopped process fires, no
\* registry entry of another process is removed.
C8_StopThenCloseHarmless ==
  [][/\ \A user \in Users, sid \in Ids :
          (/\ Found(sid, user)
           /\ servers[sid].processId \in DOMAIN processes
           /\ StopGet(user, sid))
          => (/\ servers[sid].processId \notin DOMAIN processes'
              /\ procs'[processes[servers[sid].processId]].signalled)
     /\ \A pid \in DOMAIN procs :
          (procs[pid].signalled /\ ProcClose(pid))
          => \A id \in DOMAIN processes :
               processes[id] # pid => id \in DOMAIN processes']_vars

(* ======================== properties of the fan-out =================== *)
LastCall == calls'[Len(calls')]

Delivered(ws) == inbox'[ws] = Append(inbox[ws], EnvelopeOf(LastCall))

\* C9: broadcastLog(topicId, msg) delivers the envelope to every connection
\* registered under topicId and to no connection of a different topic.
C9_BroadcastToTopic ==
  [][Len(calls') = Len(calls) + 1
       => \A ws \in DOMAIN sockets :
            IF ws \in serverConnections[LastCall.serverId]
              THEN Delivered(ws)
              ELSE inbox'[ws] = inbox[ws]]_vars

\* C9, amended: the envelope goes to every connection registered under
\* topicId whose readyState is OPEN, and to no other connection.
C9_BroadcastToOpenTopic ==
  [][Len(calls') = Len(calls) + 1
       => \A ws \in DOMAIN sockets :
            IF /\ ws \in serverConnections[LastCall.serverId]
               /\ sockets[ws].readyState = "OPEN"
              THEN Delivered(ws)
              ELSE inbox'[ws] = inbox[ws]]_vars

\* one call reached a connection of its topic and skipped an open connection
\* of the other topic that was registered before the call
C9_Witness ==
  \E a \in DOMAIN sockets, b \in DOMAIN sockets :
    /\ Len(calls) = 1
    /\ sockets[a].topic = calls[1].serverId
    /\ inbox[a] = <<EnvelopeOf(calls[1])>>
    /\ sockets[b].topic \in Topics \ {calls[1].serverId}
    /\ sockets[b].readyState = "OPEN"
    /\ sockets[b].since = 0
    /\ inbox[b] = <<>>

\* C10: no replay: a connection starts with nothing, and it is sent an
\* envelope only in the step of a broadcastLog call for its topic made while
\* it is registered and open.
C10_NoReplay ==
  [][\A ws \in DOMAIN sockets' :
       IF ws \notin DOMAIN sockets
         THEN inbox'[ws] = <<>>
         ELSE inbox'[ws] # inbox[ws]
                => (/\ sockets[ws].readyState = "OPEN"
                    /\ sockets[ws].topic \in DOMAIN serverConnections
                    /\ ws \in serverConnections[sockets[ws].topic]
                    /\ Len(calls') = Len(calls) + 1
                    /\ LastCall.serverId = sockets[ws].topic
                    /\ Delivered(ws))]_vars

\* a client reconnects to a topic after a broadcast: the old connection got
\* the first envelope, the new one holds the second envelope only
C10_Witness ==
  \E old \in DOMAIN sockets, new \in DOMAIN sockets :
    /\ Len(calls) = 2
    /\ sockets[old].topic = sockets[new].topic
    /\ calls[1].serverId = sockets[old].topic
    /\ calls[2].serverId = sockets[old].topic
    /\ sockets[old].readyState = "CLOSED"
    /\ inbox[old] = <<EnvelopeOf(calls[1])>>
    /\ sockets[new].since = 1
    /\ inbox[new] = <<EnvelopeOf(calls[2])>>

(* ====================== properties of the resolver ==================== *)
\* the Resolve step of r selects script: r goes on to the install step with it
Selects(r, script) ==
  LET next == [r EXCEPT !.pc = "install", !.script = script]
  IN  Count(requests', next) > Count(requests, next)

HasStart(d) == "package.json" \in d.files /\ d.start

HasMain(d) == "package.json" \in d.files /\ d.main # "" /\ d.main \in d.files

\* the fixed order of the fallback names
FallbackOrder == <<"index.js", "main.js", "app.js", "server.js", "bot.js">>

FirstFallback(d) ==
  LET i == CHOOSE i \in 1..Len(FallbackOrder) :
             /\ FallbackOrder[i] \in d.files
             /\ \A j \in 1..(i - 1) : FallbackOrder[j] \notin d.files
  IN  FallbackOrder[i]

HasFallback(d) == \E i \in 1..Len(FallbackOrder) : FallbackOrder[i] \in d.files

\* C12: if package.json exists and declares a start script, the resolver
\* selects "npm start", whatever the main field and the other files are.
C12_StartScriptSelected ==
  [][\A r \in DOMAIN requests :
       (Resolve(r) /\ r.dir \in DOMAIN fs /\ HasStart(fs[r.dir]))
       => Selects(r, <<"npm", "start">>)]_vars

\* "npm start" was selected in a directory whose manifest also names a main
\* file that is present, next to a file of the fallback list
C12_Witness ==
  \E r \in DOMAIN requests :
    /\ r.pc = "npm"
    /\ r.script = <<"npm", "start">>
    /\ HasStart(fs[r.dir])
    /\ HasMain(fs[r.dir])
    /\ "index.js" \in fs[r.dir].files

\* C13: if package.json exists, declares no start script and declares a main
\* file that is among the listed files, the resolver selects "node <main>",
\* also when files of the fallback list are present.
C13_MainSelected ==
  [][\A r \in DOMAIN requests :
       (/\ Resolve(r)
        /\ r.dir \in DOMAIN fs
        /\ ~HasStart(fs[r.dir])
        /\ HasMain(fs[r.dir]))
       => Selects(r, <<"node", fs[r.dir].main>>)]_vars

\* the main file lib.js was selected although index.js is present
C13_Witness ==
  \E r \in DOMAIN requests :
    /\ r.pc = "npm"
    /\ r.script = <<"node", "lib.js">>
    /\ ~HasStart(fs[r.dir])
    /\ fs[r.dir].main = "lib.js"
    /\ {"index.js", "lib.js"} \subseteq fs[r.dir].files

\* C14: with no start script and no usable main file, the resolver selects
\* "node <f>", f the first of index.js, main.js, app.js, server.js, bot.js
\* that is in the listing.
C14_FirstFallbackSelected ==
  [][\A r \in DOMAIN requests :
       (/\ Resolve(r)
        /\ r.dir \in DOMAIN fs
        /\ ~HasStart(fs[r.dir])
        /\ ~HasMain(fs[r.dir])
        /\ HasFallback(fs[r.dir]))
       => Selects(r, <<"node", FirstFallback(fs[r.dir])>>)]_vars

\* app.js was selected before bot.js, under a manifest whose main file is
\* not in the listing
C14_Witness ==
  \E r \in DOMAIN requests :
    /\ r.pc = "npm"
    /\ r.script = <<"node", "app.js">>
    /\ fs[r.dir].main = "lib.js"
    /\ fs[r.dir].files = {"package.json", "app.js", "bot.js"}

\* C15: with no start script, no usable main file and none of the five
\* fallback names, startProcess throws; no install step is run, no process
\* is spawned and the registry is unchanged.
C15_NoEntryPointFails ==
  [][\A r \in DOMAIN requests :
       (/\ Resolve(r)
        /\ r.dir \in DOMAIN fs
        /\ ~HasStart(fs[r.dir])
        /\ ~HasMain(fs[r.dir])
        /\ ~HasFallback(fs[r.dir]))
       => (/\ processes' = processes
           /\ procs' = procs
           /\ \A q \in DOMAIN requests' :
                q.pc \in {"install", "npm", "update"}
                  => Count(requests', q) <= Count(requests, q)
           /\ IF r.kind = "start"
                THEN LET next == [r EXCEPT !.pc = "failupdate",
                                           !.error = "No valid entry point found"]
                     IN  Count(requests', next) > Count(requests, next)
                ELSE /\ requests' = BagDel(requests, r)
                     /\ lastResponse' = Response("restart", 500, NULL))]_vars

\* a start request failed in the resolver of a directory that holds files
C15_Witness ==
  \E r \in DOMAIN requests :
    /\ r.kind = "start"
    /\ r.pc = "failupdate"
    /\ r.error = "No valid entry point found"
    /\ fs[r.dir].files # {}
    /\ procs = <<>>

(* ===================== properties of the install step ================= *)
\* C16: if npm install exits with a non-zero code, startProcess throws: no
\* application process is spawned, no handle is returned and the registry is
\* unchanged.
C16_InstallFailureFails ==
  [][\A r \in DOMAIN requests :
       NpmClose(r, 1)
       => (/\ processes' = processes
           /\ procs' = procs
           /\ \A q \in DOMAIN requests' :
                q.pc = "update" => Count(requests', q) <= Count(requests, q)
           /\ IF r.kind = "start"
                THEN LET next == [r EXCEPT !.pc = "failupdate",
                                           !.error = "npm install failed"]
                     IN  Count(requests', next) > Count(requests, next)
                ELSE /\ requests' = BagDel(requests, r)
                     /\ lastResponse' = Response("restart", 500, NULL))]_vars

\* a start request failed in npm install and nothing was spawned
C16_Witness ==
  \E r \in DOMAIN requests :
    /\ r.kind = "start"
    /\ r.pc = "failupdate"
    /\ r.error = "npm install failed"
    /\ r.script # <<>>
    /\ procs = <<>>
    /\ processes = <<>>

(* ================== properties of the request handlers ================ *)
\* C11: when a DELETE /api/servers/:id request completes successfully, the
\* record no longer exists and no process started for that server remains
\* in the registry.
C11_DeleteStopsProcesses ==
  [][\A r \in DOMAIN requests :
       DeleteRow(r)
       => (/\ r.sid \notin DOMAIN servers'
           /\ \A id \in DOMAIN processes' : id[1] # r.sid)]_vars

\* C17: whenever startProcess throws inside a start or a restart request,
\* the handler marks the record's status "error", and the record is not left
\* "running" or with a processId that is not in the registry.
C17_FailureMarksRecord ==
  [][\A r \in DOMAIN requests :
       (/\ r.kind \in {"start", "restart"}
        /\ requests' = BagDel(requests, r)
        /\ lastResponse' = Response(r.kind, 500, NULL)
        /\ r.sid \in DOMAIN servers')
       => (/\ servers'[r.sid].status = "error"
           /\ \/ servers'[r.sid].processId = NULL
              \/ servers'[r.sid].processId \in DOMAIN processes')]_vars

\* C18: if the OS fails to spawn the resolved command, startProcess throws
\* instead of returning a handle: the request does not go on to write
\* "running" with the handle of the failed spawn.
C18_SpawnFailureThrows ==
  [][\A pid \in DOMAIN procs' \ DOMAIN procs :
       procs'[pid].state = "failed"
       => \A r \in DOMAIN requests' :
            (r.pc = "update" /\ r.h = procs'[pid].handle)
              => Count(requests', r) <= Count(requests, r)]_vars

\* C19: when a process that was not stopped exits, its handle is removed
\* from the registry and the server records are left as they are.
C19_ExitLeavesRecord ==
  [][\A pid \in DOMAIN procs :
       (ProcClose(pid) /\ ~procs[pid].signalled)
       => (/\ procs[pid].handle \notin DOMAIN processes'
           /\ servers' = servers)]_vars

\* no request is in flight, the process has exited on its own, and the
\* record still shows "running" with the handle that is no longer registered
C19_Witness ==
  /\ requests = <<>>
  /\ procs = <<>>
  /\ processes = <<>>
  /\ \E sid \in DOMAIN servers :
       /\ servers[sid].status = "running"
       /\ servers[sid].processId # NULL

\* C20: in every reachable state, every server record's status is one of
\* stopped, running, error, after create, update with an arbitrary body,
\* start, stop and restart requests.
C20_StatusInDomain ==
  \A id \in DOMAIN servers : servers[id].status \in Statuses

(* ======================== properties of handle ids ==================== *)
\* C21: handle ids are unique per spawned process: no two living processes
\* were registered under the same handle id, so registering a process never
\* overwrites the entry of another living process.
C21_UniqueHandles ==
  \A p \in DOMAIN procs, q \in DOMAIN procs :
    p # q => procs[p].handle # procs[q].handle

(* ======================== properties of the log lines ================= *)
\* the step made one broadcastLog call: message went to the open connections
\* of serverId's topic and to no other connection
Sent(serverId, message) ==
  /\ calls' = Append(calls, [serverId |-> serverId, message |-> message,
                             timestamp |-> now])
  /\ \A ws \in DOMAIN sockets :
       inbox'[ws] =
         IF sockets[ws].topic = serverId /\ sockets[ws].readyState = "OPEN"
           THEN Append(inbox[ws], [type |-> "log", timestamp |-> now,
                                   message |-> message])
           ELSE inbox[ws]

\* C22: every output chunk of a child is forwarded as one log line to the
\* sink of the server that started it and to no other topic, prefixed
\* "[npm] " (install), "[stdout] " or "[stderr] " (process).
C22_OutputTagged ==
  [][/\ \A pid \in DOMAIN procs, chunk \in Chunks :
          /\ ProcOutput(pid, "stdout", chunk)
               => Sent(procs[pid].handle[1], "[stdout] ready")
          /\ ProcOutput(pid, "stderr", chunk)
               => Sent(procs[pid].handle[1], "[stderr] ready")
     /\ \A r \in DOMAIN requests, chunk \in Chunks :
          NpmOutput(r, chunk) => Sent(r.sid, "[npm] ready")]_vars

\* processes of two servers are running; the last line is a stderr chunk and
\* an npm chunk went before it, and neither reached the other server's topic
C22_Witness ==
  /\ Len(calls) > 0
  /\ calls[Len(calls)].message = "[stderr] ready"
  /\ \E i \in 1..Len(calls) : calls[i].message = "[npm] ready"
  /\ \E p \in DOMAIN procs, q \in DOMAIN procs :
       /\ procs[p].handle[1] # procs[q].handle[1]
       /\ procs[p].state = "running"
       /\ procs[q].state = "running"
  /\ \A ws \in DOMAIN sockets :
       sockets[ws].topic # calls[Len(calls)].serverId
         => \A i \in 1..Len(inbox[ws]) :
              inbox[ws][i].message \notin {"[stderr] ready", "[stdout] ready"}

(* ==================== properties of startProcess's order ============== *)
\* a child process is spawned in this step
Spawned == Cardinality(DOMAIN procs') > Cardinality(DOMAIN procs)

HasManifest(r) == r.dir \in DOMAIN fs /\ "package.json" \in fs[r.dir].files

\* C23: within one startProcess call the install step starts only after an
\* entry point has been resolved, and the process is spawned only after the
\* install step, when a manifest exists, has closed with exit code 0.
C23_ResolveInstallSpawn ==
  [][/\ \A r \in DOMAIN requests :
          /\ (Install(r) \/ NpmClose(r, 0) \/ NpmClose(r, 1)) => r.script # <<>>
          /\ (Spawned /\ Install(r)) => ~HasManifest(r)
          /\ (Spawned /\ r.pc = "npm"
                /\ Count(requests', r) < Count(requests, r)) => NpmClose(r, 0)
     /\ Spawned => \E r \in DOMAIN requests : Install(r) \/ NpmClose(r, 0)]_vars

\* a process runs that was spawned by a request which went through npm
\* install with the resolved "npm start"
C23_Witness ==
  \E r \in DOMAIN requests, pid \in DOMAIN procs :
    /\ r.pc = "update"
    /\ r.script = <<"npm", "start">>
    /\ procs[pid].handle = r.h
    /\ procs[pid].state = "running"
    /\ HasManifest(r)

\* C24: when the close event of a spawned process fires, exactly one
\* "Process exited with code N" line is sent to its sink and the handle is
\* removed in the same step; stdout/stderr lines are sent only by a process
\* whose close event has not fired.
C24_ExitLineLast ==
  [][/\ \A pid \in DOMAIN procs :
          ProcClose(pid)
          => (/\ Sent(procs[pid].handle[1], "Process exited with code")
              /\ procs[pid].handle \notin DOMAIN processes'
              /\ Cardinality(DOMAIN procs') = Cardinality(DOMAIN procs) - 1)
     /\ (/\ Len(calls') > Len(calls)
         /\ LastCall.message \in {"[stdout] ready", "[stderr] ready"})
        => (/\ procs' = procs
            /\ \E pid \in DOMAIN procs :
                 /\ procs[pid].handle[1] = LastCall.serverId
                 /\ procs[pid].state = "running")]_vars

\* a process wrote to stdout and then closed: its exit line is the last line
\* of its server's topic and the server has no process left
C24_Witness ==
  /\ Len(calls) >= 2
  /\ calls[Len(calls)].message = "Process exited with code"
  /\ calls[Len(calls) - 1].message = "[stdout] ready"
  /\ calls[Len(calls) - 1].serverId = calls[Len(calls)].serverId
  /\ \A pid \in DOMAIN procs : procs[pid].handle[1] # calls[Len(calls)].serverId
  /\ \A id \in DOMAIN processes : id[1] # calls[Len(calls)].serverId

(* ==================== properties of the connection map ================ *)
\* the connection sets a connection is a member of
SetsOf(conns, ws) == {t \in DOMAIN conns : ws \in conns[t]}

\* C25: broadcastLog sends nothing to a registered connection that is not
\* open and leaves it in its set; it never changes the connection map, whose
\* membership changes only when a connection with a serverId connects or
\* closes; a connection without a serverId is in no set.
C25_MapChangesOnConnectAndClose ==
  [][/\ Len(calls') > Len(calls)
          => (/\ serverConnections' = serverConnections
              /\ \A ws \in DOMAIN sockets :
                   sockets[ws].readyState # "OPEN" => inbox'[ws] = inbox[ws])
     /\ \A ws \in DOMAIN sockets' :
          LET before == IF ws \in DOMAIN sockets
                          THEN SetsOf(serverConnections, ws) ELSE {}
              after == SetsOf(serverConnections', ws)
          IN  /\ after # before
                   => \/ /\ ws \notin DOMAIN sockets
                         /\ sockets'[ws].topic # NoTopic
                         /\ after = {sockets'[ws].topic}
                      \/ /\ ws \in DOMAIN sockets
                         /\ sockets[ws].readyState # "CLOSED"
                         /\ sockets'[ws].readyState = "CLOSED"
                         /\ after = {}
              /\ sockets'[ws].topic = NoTopic => after = {}]_vars

\* a closing connection was skipped by a broadcast to its topic and is still
\* registered, next to a connection without serverId that is in no set
C25_Witness ==
  \E ws \in DOMAIN sockets, other \in DOMAIN sockets :
    /\ sockets[ws].readyState = "CLOSING"
    /\ sockets[ws].since = 0
    /\ Len(calls) = 1
    /\ calls[1].serverId = sockets[ws].topic
    /\ ws \in serverConnections[sockets[ws].topic]
    /\ inbox[ws] = <<>>
    /\ sockets[other].topic = NoTopic
    /\ SetsOf(serverConnections, other) = {}

(* ==================== properties of failure reporting ================= *)
\* C26: every start or restart request that fails is answered with an HTTP
\* error, and a failure line for it has been broadcast to its server's topic.
C26_FailureAnsweredAndLogged ==
  [][\A r \in DOMAIN requests :
       (/\ r.kind \in {"start", "restart"}
        /\ requests' = BagDel(requests, r)
        /\ lastResponse' = Response(r.kind, 500, NULL))
       => \E i \in 1..Len(calls') :
            /\ calls'[i].serverId = r.sid
            /\ calls'[i].message = "Start failed"]_vars

(* ========================= properties of restart ====================== *)
\* C27: when a restart request, alone in flight, completes successfully
\* while the process it spawned is alive, the handle h_old the record held is
\* absent from the registry, the new handle differs from h_old and is
\* registered, and the record holds the new handle with status "running".
C27_RestartReplacesHandle ==
  [][\A r \in DOMAIN requests :
       (/\ r.kind = "restart"
        /\ Started(r)
        /\ BagSize(requests) = 1
        /\ r.sid \in DOMAIN servers
        /\ \E pid \in DOMAIN procs :
             /\ procs[pid].handle = r.h
             /\ procs[pid].state = "running"
             /\ ~procs[pid].signalled)
       => LET old == servers[r.sid].processId
          IN  /\ servers'[r.sid].processId = r.h
              /\ servers'[r.sid].status = "running"
              /\ r.h \in DOMAIN processes'
              /\ old # NULL => (old \notin DOMAIN processes' /\ r.h # old)]_vars

(* ===================== properties of record and registry ============== *)
\* C28: in every state in which no request is in flight, every registry
\* handle started for a server equals the processId stored in that server's
\* record.
C28_NoOrphanedProcess ==
  requests = <<>>
    => \A id \in DOMAIN processes :
         /\ id[1] \in DOMAIN servers
         /\ servers[id[1]].processId = id
\* The page alone: the hook, its sockets and its timers.
NextHook ==
  \/ \E path \in Paths : Mount(path)
  \/ \E path \in Paths : PathChange(path)
  \/ Unmount
  \/ \E i \in 1..MaxSockets : onopen(i)
  \/ \E i \in 1..MaxSockets : onclose(i)
  \/ Elapse
  \/ \E k \in 1..MaxSockets : timeout(k)

SpecHook == Init /\ [][NextHook]_vars

\* C29: a reconnect timer that runs while the hook is mounted and
\* socketRef.current is closed opens a new connection; and a connection is
\* only ever opened while the hook is mounted, for the path it is mounted
\* on: after the cleanup of a path has run nothing is opened for that path.
C29_ReconnectOnlyWhileMounted ==
  [][ /\ \A k \in 1..MaxSockets :
           (/\ timeout(k)
            /\ hook.phase = "mounted"
            /\ hook.current # 0
            /\ hook.socks[hook.current].readyState = "CLOSED")
           => Len(hook'.socks) = Len(hook.socks) + 1
      /\ Len(hook'.socks) > Len(hook.socks)
           => /\ hook'.phase = "mounted"
              /\ hook'.socks[Len(hook'.socks)].wsUrl = hook'.path ]_vars

(* ------------------- two tenants and one server ----------------------- *)
\* user 1 owns server 1 and has uploaded a project; user 2 owns nothing
InitTenant ==
  /\ servers = [id \in Ids |-> [userId |-> 1, status |-> "stopped",
                                  processId |-> NULL, rootPath |-> id]]
  /\ nextId = MaxServers + 1
  /\ fs = [id \in Ids |-> Extract(EmptyDir, ZipStart)]
  /\ nextDir = MaxServers + 1
  /\ requests = <<>>
  /\ lastResponse = NoResponse
  /\ processes = <<>>
  /\ procs = <<>>
  /\ now = 0
  /\ serverConnections = <<>>
  /\ sockets = <<>>
  /\ inbox = <<>>
  /\ calls = <<>>
  /\ hook = Unmounted

\* bodies of the file routes
FilePathLists == {<<"index.js", "bot.js">>}
FilePaths == {"index.js", targetPath("index.js")}

\* a request for /api/servers/:id as it arrives
Arrival(user, sid) ==
  \/ GetServer(user, sid)
  \/ UpdateGet(user, sid, "error")
  \/ DeleteGet(user, sid)
  \/ UploadGet(user, sid, ZipPlain)
  \/ FilesGet(user, sid)
  \/ \E filePaths \in FilePathLists : MoveGet(user, sid, filePaths)
  \/ \E filePath \in FilePaths : DeleteFileGet(user, sid, filePath)
  \/ StartGet(user, sid)
  \/ StopGet(user, sid)
  \/ RestartGet(user, sid)

\* the owner sends one request at a time; the other user's requests arrive
\* at any moment
NextTenant ==
  \/ \E sid \in Ids : requests = <<>> /\ Arrival(1, sid)
  \/ \E sid \in Topics : Arrival(2, sid)
  \/ \E r \in DOMAIN requests :
       \/ UpdateSet(r) \/ UploadExtract(r) \/ FilesList(r) \/ MoveFiles(r)
       \/ DeleteFile(r) \/ DeleteDir(r) \/ DeleteRow(r)
       \/ StartCheck(r) \/ Started(r) \/ StartFailed(r) \/ Stopped(r)
       \/ Resolve(r) \/ Install(r)
       \/ \E code \in {0, 1} : NpmClose(r, code)
  \/ \E pid \in 1..MaxProcs : ProcError(pid)
  \/ \E pid \in 1..MaxProcs : ProcClose(pid)

SpecTenant == InitTenant /\ [][NextTenant]_vars

Owns(user, sid) == sid \in DOMAIN servers /\ servers[sid].userId = user

\* C30: a request for a server operation (get, update, delete, upload, list
\* files, move-to-root, delete file, start, stop, restart) by a user who does
\* not own the server is answered 404 "Server not found" and leaves the
\* server records, the process registry, the processes and the files as
\* they were.
C30_TenantIsolation ==
  [][ \A user \in Users, sid \in Topics :
        (~Owns(user, sid) /\ Arrival(user, sid))
        => /\ lastResponse'.status = 404
           /\ UNCHANGED <<servers, processes, procs, fs, requests>> ]_vars

\* a request of the other user has been answered 404 while the owner's
\* server runs its process out of its uploaded files
C30_Witness ==
  /\ lastResponse.status = 404
  /\ lastResponse.kind = "deletefile"
  /\ 1 \in DOMAIN servers
  /\ servers[1].userId = 1
  /\ servers[1].status = "running"
  /\ servers[1].processId \in DOMAIN processes
  /\ 1 \in DOMAIN fs
  /\ targetPath("index.js") \in fs[1].files

====
